---- MODULE Spec2Model ----
(***************************************************************************)
(* Model of app.py, the HIPAA Identifier Detector: a Streamlit script that *)
(* is executed top to bottom for every user interaction of a session.      *)
(*                                                                         *)
(* Text is a sequence of units.  A unit is a single character of user or   *)
(* service data, or one whole line / literal of the program's own text      *)
(* (a template line, the error preamble, the example text).                *)
(***************************************************************************)
EXTENDS Integers, Sequences, FiniteSets, TLC

(* ------------------------------ bounds -------------------------------- *)
\* longest text the user types into the text area
MaxInputLen == 2
\* longest response text the service returns
MaxRespLen == 3
\* number of button handler executions with non-blank input that are explored
MaxTriggers == 2

(* ------------------------------- text --------------------------------- *)
\* characters the user and the service draw their text from
Chars == {"a", " "}

\* what str.strip() removes at both ends (str.isspace)
Whitespace == {" ", "\n", "\t"}

RECURSIVE SeqsUpTo(_, _)
SeqsUpTo(S, n) ==
    IF n = 0 THEN {<<>>}
    ELSE LET shorter == SeqsUpTo(S, n - 1)
         IN  shorter \cup {Append(s, c) : s \in {t \in shorter : Len(t) = n - 1}, c \in S}

RECURSIVE LStrip(_)
LStrip(s) ==
    IF s # <<>> /\ Head(s) \in Whitespace THEN LStrip(Tail(s)) ELSE s

RECURSIVE RStrip(_)
RStrip(s) ==
    IF s # <<>> /\ s[Len(s)] \in Whitespace THEN RStrip(SubSeq(s, 1, Len(s) - 1)) ELSE s

\* str.strip()
Strip(s) == RStrip(LStrip(s))

RECURSIVE JoinLines(_)
\* the lines of a literal, each followed by its newline
JoinLines(ls) ==
    IF ls = <<>> THEN <<>> ELSE <<Head(ls), "\n">> \o JoinLines(Tail(ls))

\* example_text, the initial value of the text area
ExampleText ==
    << "David Johnson, born 11/02/1980, lives at 22 Pine Street, Boston, MA 02108. His phone number is (617) 555-3210. He came in complaining of headaches and blurred vision." >>

\* every value the text area can hold
Inputs == {ExampleText} \cup SeqsUpTo(Chars, MaxInputLen)

\* every text a successful response can carry
Responses == SeqsUpTo(Chars, MaxRespLen)

\* str(e) of the exceptions the service call raises
Details == { <<"429 quota exceeded">>, <<" ", "API key not valid", " ">> }

(* --------------------------- prompt builder ---------------------------- *)
\* the f-string up to the placeholder: opening newline, the instructions,
\* the first delimiter line (the typographic quotes of lines 34 and 51 are
\* written as plain quotes)
PromptHead ==
    <<"\n">> \o
    JoinLines(<<
      "I want to detect any of the 18 HIPAA identifiers under Section 164.514(a) of the HIPAA Privacy Rules for an individual or of relatives, employers, or household members of the individual. Here are the identifiers:",
      "",
      "\"1. Names;",
      "2. All geographical subdivisions smaller than a State, including street address, city, county, precinct, zip code, and their equivalent geocodes, except for the initial three digits of a zip code if specific census conditions are met.",
      "3. All elements of dates (except year) for dates directly related to an individual, and all ages over 89.",
      "4. Phone numbers;",
      "5. Fax numbers;",
      "6. Electronic mail addresses;",
      "7. Social Security numbers;",
      "8. Medical record numbers;",
      "9. Health plan beneficiary numbers;",
      "10. Account numbers;",
      "11. Certificate/license numbers;",
      "12. Vehicle identifiers and serial numbers, including license plate numbers;",
      "13. Device identifiers and serial numbers;",
      "14. Web Universal Resource Locators (URLs);",
      "15. Internet Protocol (IP) address numbers;",
      "16. Biometric identifiers, including finger and voice prints;",
      "17. Full face photographic images and any comparable images; and",
      "18. Any other unique identifying number, characteristic, or code.\"",
      "",
      "Please detect HIPAA identifiers in a step-by-step fashion. First, internally identify all named entities. Then, determine and output which of those entities are part of the 18 HIPAA identifiers.",
      "",
      "Now you detect HIPAA identifiers, please explain your thinking using this format:",
      "",
      "Rationale:",
      "<your thinking>",
      "",
      "Final Answer:",
      "<List of any HIPAA identifiers found or write \"No HIPAA identifiers in the text\">",
      "",
      "Here is the text to consider:",
      "",
      "---" >>)

\* the f-string after the placeholder: end of the input line, the second
\* delimiter line
PromptTail == <<"\n", "---", "\n">>

\* fault variant: the trimmed copy of the emptiness check is interpolated
BuildPromptTrimmed(text_input) == PromptHead \o Strip(text_input) \o PromptTail

\* prompt = f"""...{text_input}..."""
BuildPrompt(text_input) == PromptHead \o text_input \o PromptTail

(* ---------------------------- result texts ----------------------------- *)
ErrorPreamble ==
    << "Error:",
       " Could not contact the AI model. This might be due to a rate limit or other API issue. Please try again later. Details: " >>

\* return f"Error: ... Details: {e}"
ErrorText(detail) == ErrorPreamble \o detail

\* fault variant: the response text is returned as it came
SuccessTextUntrimmed(response_text) == response_text

\* return response.text.strip()
SuccessText(response_text) == Strip(response_text)

ConfigErrorMsg ==
    << "Your Google API key is missing or invalid. Please create a .streamlit/secrets.toml file with your key." >>

WarningMsg == << "Please enter some text to analyze." >>

(* ------------------------------- state -------------------------------- *)
VARIABLES
    secret,       \* what st.secrets["google_api_key"] / genai.configure does in this process
    pc,           \* where the session's script is: startup, halted, crashed, ready, calling
    user_input,   \* value of the text area as the script last read it
    button,       \* value st.button returned in the latest script run
    display,      \* the element the latest script run put on the page
    inflight,     \* generate_content calls issued and not yet returned
    pending,      \* rerun request queued by the front end while the script is blocked
    triggers,     \* executions of the handler branch with non-blank input (line 102)
    calls,        \* invocations of model.generate_content (line 73)
    aborted,      \* handler executions whose model construction raised (line 72)
    runCalls,     \* generate_content invocations of the latest script run
    lastOutcome,  \* what the service did for the run whose result is displayed
    everFailed,   \* some service call of this session has failed
    memo          \* one remembered earlier run: input, service behaviour, output

vars == << secret, pc, user_input, button, display, inflight, pending, triggers,
           calls, aborted, runCalls, lastOutcome, everFailed, memo >>

\* outcomes of the credential lookup and genai.configure at lines 16-17:
\* a usable key, a string that is no key (configure accepts any string),
\* the two exceptions the guard names, any other exception of the lookup
Secrets == {"valid", "malformed", "KeyError", "AttributeError", "OtherError"}

NoOutcome == [kind |-> "none", stage |-> "none", text |-> <<>>]

Ok(response_text) == [kind |-> "ok", stage |-> "done", text |-> response_text]

Fail(stage, detail) == [kind |-> "fail", stage |-> stage, text |-> detail]

\* genai.GenerativeModel('gemini-2.5-pro') returns a model or raises
ConstructOutcomes == {NoOutcome} \cup {Fail("construct", d) : d \in Details}

\* model.generate_content(prompt) raises, response.text raises, or the text
\* is read; a key the service does not know is rejected by the service
CallOutcomes(s) ==
    IF s = "valid"
    THEN {Ok(r) : r \in Responses}
         \cup {Fail(st, d) : st \in {"generate", "text"}, d \in Details}
    ELSE {Fail("generate", d) : d \in Details}

NoPending == [req |-> FALSE, input |-> <<>>, clicked |-> FALSE]

NoMemo == [set |-> FALSE, input |-> <<>>, outcome |-> NoOutcome,
           kind |-> "none", text |-> <<>>]

Element(kind, text, trigger) == [kind |-> kind, text |-> text, trigger |-> trigger]

(* --------------------------- startup guard ----------------------------- *)
\* try: genai.configure(...) except (KeyError, AttributeError): st.error; st.stop()
StartupGuard(s) ==
    IF s \in {"KeyError", "AttributeError"} THEN "halted"
    ELSE IF s = "OtherError" THEN "crashed"
    ELSE "run"

(* ------------------------- detection function -------------------------- *)
\* fault variant: response.text is read outside the try block
CaughtCallOnly(stage) == stage \in {"construct", "generate"}

\* except Exception around lines 72-74
Caught(stage) == stage \in {"construct", "generate", "text"}

\* fault variant: the failure count of the session leaks into the message
ResultTextCounting(o) ==
    IF o.kind = "ok" THEN SuccessText(o.text)
    ELSE ErrorText(o.text) \o (IF everFailed THEN <<" (again)">> ELSE <<>>)

\* the string detect_hipaa_identifiers returns
ResultText(o) ==
    IF o.kind = "ok" THEN SuccessText(o.text) ELSE ErrorText(o.text)

\* fault variant: a failed call is tried a second time
AttemptsWithRetry(fl, call) == Append(Append(fl, call), call)

\* one model.generate_content(prompt) per execution of the try block
Attempts(fl, call) == Append(fl, call)

\* fault variant: the handler stops the script after an error result
AfterResultStopOnError(o) == IF o.kind = "fail" THEN "halted" ELSE "ready"

\* the script ends after st.markdown(result) and waits for the next interaction
AfterResult(o) == "ready"

\* fault variant: the check is only "if user_input"
NonBlankNoStrip(text) == text # <<>>

\* if user_input and user_input.strip()
NonBlank(text) == text # <<>> /\ Strip(text) # <<>>

(* ------------------------------ the script ----------------------------- *)
\* One execution of app.py from line 8, with the widget values the front
\* end sent: inp for the text area, clicked for the button.  fl are the
\* calls still in flight, ef whether a call has failed before.  The run ends
\* at st.stop(), at an uncaught exception, at the end of the script, or
\* blocks in generate_content.
ScriptRun(inp, clicked, fl, ef) ==
    /\ user_input' = inp
    /\ pending' = NoPending
    /\ UNCHANGED << secret, memo >>
    /\ IF StartupGuard(secret) # "run"
       THEN /\ pc' = StartupGuard(secret)
            /\ display' = IF StartupGuard(secret) = "halted"
                          THEN Element("config_error", ConfigErrorMsg, 0)
                          ELSE Element("exception", <<secret>>, 0)
            /\ button' = FALSE
            /\ inflight' = fl
            /\ runCalls' = 0
            /\ lastOutcome' = NoOutcome
            /\ everFailed' = ef
            /\ UNCHANGED << triggers, calls, aborted >>
       ELSE
       /\ button' = clicked
       /\ IF ~clicked
          THEN /\ pc' = "ready"
               /\ display' = Element("form", <<>>, 0)
               /\ inflight' = fl
               /\ runCalls' = 0
               /\ lastOutcome' = NoOutcome
               /\ everFailed' = ef
               /\ UNCHANGED << triggers, calls, aborted >>
          ELSE IF ~NonBlank(inp)
          THEN /\ pc' = "ready"
               /\ display' = Element("warning", WarningMsg, 0)
               /\ inflight' = fl
               /\ runCalls' = 0
               /\ lastOutcome' = NoOutcome
               /\ everFailed' = ef
               /\ UNCHANGED << triggers, calls, aborted >>
          ELSE
          /\ triggers' = triggers + 1
          /\ \E c \in ConstructOutcomes :
               IF c.kind = "fail"
               THEN /\ pc' = IF Caught(c.stage) THEN AfterResult(c) ELSE "crashed"
                    /\ display' = IF Caught(c.stage)
                                  THEN Element("result", ResultText(c), triggers + 1)
                                  ELSE Element("exception", c.text, 0)
                    /\ inflight' = fl
                    /\ runCalls' = 0
                    /\ lastOutcome' = c
                    /\ everFailed' = TRUE
                    /\ aborted' = aborted + 1
                    /\ calls' = calls
               ELSE /\ pc' = "calling"
                    /\ display' = Element("spinner", <<>>, 0)
                    /\ inflight' = Attempts(fl, [trigger |-> triggers + 1,
                                                 prompt |-> BuildPrompt(inp)])
                    /\ runCalls' = Len(inflight') - Len(fl)
                    /\ calls' = calls + Len(inflight') - Len(fl)
                    /\ lastOutcome' = NoOutcome
                    /\ everFailed' = ef
                    /\ aborted' = aborted

(* ------------------------------- actions ------------------------------- *)
Init ==
    /\ secret \in Secrets
    /\ pc = "startup"
    /\ user_input = ExampleText
    /\ button = FALSE
    /\ display = Element("blank", <<>>, 0)
    /\ inflight = <<>>
    /\ pending = NoPending
    /\ triggers = 0
    /\ calls = 0
    /\ aborted = 0
    /\ runCalls = 0
    /\ lastOutcome = NoOutcome
    /\ everFailed = FALSE
    /\ memo = NoMemo

\* the browser opens the page: first execution of the script
Start ==
    /\ pc = "startup"
    /\ ScriptRun(ExampleText, FALSE, inflight, everFailed)

\* the page is reloaded or rerun without a widget change
Rerun ==
    /\ pc \in {"ready", "halted", "crashed"}
    /\ ScriptRun(user_input, FALSE, inflight, everFailed)

\* the user changes the text area
EditText ==
    /\ pc = "ready"
    /\ \E t \in Inputs \ {user_input} : ScriptRun(t, FALSE, inflight, everFailed)

\* the user presses "Detect Identifiers"
ClickButton ==
    /\ pc = "ready"
    /\ triggers < MaxTriggers
    /\ ScriptRun(user_input, TRUE, inflight, everFailed)

\* the user changes the text while the script is blocked in the call
EditWhileBusy ==
    /\ pc = "calling"
    /\ \E t \in Inputs :
         pending' = [req |-> TRUE, input |-> t, clicked |-> pending.clicked]
    /\ UNCHANGED << secret, pc, user_input, button, display, inflight, triggers,
                    calls, aborted, runCalls, lastOutcome, everFailed, memo >>

\* fault variant: a press during the call starts a second run at once
ClickWhileBusyReentrant ==
    /\ pc = "calling"
    /\ triggers < MaxTriggers
    /\ ScriptRun(user_input, TRUE, inflight, everFailed)

\* the user presses the button while the script is blocked in the call
ClickWhileBusy ==
    /\ pc = "calling"
    /\ triggers < MaxTriggers
    /\ pending' = [req |-> TRUE,
                   input |-> IF pending.req THEN pending.input ELSE user_input,
                   clicked |-> TRUE]
    /\ UNCHANGED << secret, pc, user_input, button, display, inflight, triggers,
                    calls, aborted, runCalls, lastOutcome, everFailed, memo >>

\* generate_content returns or raises; lines 73-77 and 104-106 run, unless a
\* queued rerun request replaces the rest of the run by a new execution
CallReturns ==
    /\ pc = "calling"
    /\ inflight # <<>>
    /\ \E o \in CallOutcomes(secret) :
         LET call == Head(inflight)
             rest == Tail(inflight)
             ef   == everFailed \/ o.kind = "fail"
         IN  IF o.kind = "fail" /\ ~Caught(o.stage)
             THEN /\ pc' = "crashed"
                  /\ display' = Element("exception", o.text, 0)
                  /\ inflight' = rest
                  /\ lastOutcome' = o
                  /\ everFailed' = ef
                  /\ pending' = NoPending
                  /\ UNCHANGED << secret, user_input, button, triggers, calls,
                                  aborted, runCalls, memo >>
             ELSE IF pending.req
             THEN ScriptRun(pending.input, pending.clicked, rest, ef)
             ELSE /\ pc' = AfterResult(o)
                  /\ display' = Element("result", ResultText(o), call.trigger)
                  /\ inflight' = rest
                  /\ lastOutcome' = o
                  /\ everFailed' = ef
                  /\ UNCHANGED << secret, user_input, button, pending, triggers,
                                  calls, aborted, runCalls, memo >>

\* remember the run whose output is on the page, to compare later runs with
\* it; only runs that another valid trigger can still follow are remembered
Snapshot ==
    /\ pc = "ready"
    /\ button
    /\ ~memo.set
    /\ triggers < MaxTriggers
    /\ memo' = [set |-> TRUE, input |-> user_input, outcome |-> lastOutcome,
                kind |-> display.kind, text |-> display.text]
    /\ UNCHANGED << secret, pc, user_input, button, display, inflight, pending,
                    triggers, calls, aborted, runCalls, lastOutcome, everFailed >>

Next ==
    \/ Start
    \/ Rerun
    \/ EditText
    \/ ClickButton
    \/ EditWhileBusy
    \/ ClickWhileBusy
    \/ CallReturns

Spec == Init /\ [][Next]_vars

\* the comparison of two runs; text changes are made between runs here
NextMemo ==
    \/ Start
    \/ Rerun
    \/ EditText
    \/ ClickButton
    \/ ClickWhileBusy
    \/ CallReturns
    \/ Snapshot

SpecMemo == Init /\ [][NextMemo]_vars

(* ----------------------- vocabulary of the claims ---------------------- *)
\* text consists of whitespace only (the empty text included)
IsBlank(text) == \A i \in 1..Len(text) : text[i] \in Whitespace

\* sub occurs in text as a contiguous piece
Contains(text, sub) ==
    \E i \in 0..(Len(text) - Len(sub)) : SubSeq(text, i + 1, i + Len(sub)) = sub

\* t is r without its leading and trailing whitespace, nothing else changed
IsTrimOf(t, r) ==
    \E i \in 0..Len(r), j \in 0..Len(r) :
       /\ i + j <= Len(r)
       /\ t = SubSeq(r, i + 1, Len(r) - j)
       /\ IsBlank(SubSeq(r, 1, i))
       /\ IsBlank(SubSeq(r, Len(r) - j + 1, Len(r)))
       /\ t # <<>> => (t[1] \notin Whitespace /\ t[Len(t)] \notin Whitespace)
       /\ t = <<>> => i + j = Len(r)

\* text is an error message carrying detail
IsErrorFor(text, detail) ==
    /\ Len(text) >= 1
    /\ text[1] = "Error:"
    /\ Len(text) >= Len(detail)
    /\ SubSeq(text, Len(text) - Len(detail) + 1, Len(text)) = detail

\* the latest run executed the handler with text that is not blank
ValidTrigger == button /\ ~IsBlank(user_input)

(* ------------------------------- claims -------------------------------- *)
\* C1: whatever stage of the service call raises (constructing the model,
\* generate_content, reading response.text), the failure does not escape:
\* the script ends normally and the page shows a result that begins with
\* "Error:" and carries the exception's text.
C1_FailureBecomesErrorText ==
    lastOutcome.kind = "fail" =>
        /\ pc = "ready"
        /\ display.kind = "result"
        /\ IsErrorFor(display.text, lastOutcome.text)
        /\ Contains(display.text, lastOutcome.text)

C1_Witness ==
    /\ lastOutcome = Fail("text", <<" ", "API key not valid", " ">>)
    /\ display.kind = "result"
    /\ pc = "ready"

\* C2: a press of the button with empty or whitespace-only text shows the
\* warning, shows no analysis result and issues no outbound call.
C2_BlankInputWarnsWithoutCall ==
    (button /\ IsBlank(user_input)) =>
        /\ pc = "ready"
        /\ display = Element("warning", WarningMsg, 0)
        /\ runCalls = 0
        /\ inflight = <<>>
        /\ lastOutcome = NoOutcome

C2_Witness ==
    /\ button
    /\ user_input = <<" ", " ">>
    /\ display.kind = "warning"
    /\ calls = 1

\* C3 (as claimed): whenever the credential is absent or malformed, startup
\* halts with the configuration error on the page, the widgets are never
\* reached and no outbound call is ever made.
C3_BadCredentialHalts ==
    (secret # "valid" /\ pc # "startup") =>
        /\ pc = "halted"
        /\ display = Element("config_error", ConfigErrorMsg, 0)
        /\ calls = 0
        /\ inflight = <<>>

\* C4: after a successful call the page shows the response text without its
\* leading and trailing whitespace and otherwise unchanged.
C4_SuccessShowsTrimmedResponse ==
    lastOutcome.kind = "ok" =>
        /\ pc = "ready"
        /\ display.kind = "result"
        /\ IsTrimOf(display.text, lastOutcome.text)

C4_Witness ==
    /\ lastOutcome = Ok(<<" ", "a", " ">>)
    /\ display = Element("result", <<"a">>, triggers)
    /\ pc = "ready"

\* C5: the prompt handed to the service is the fixed text before the
\* placeholder, the text of the text area exactly as the script read it, and
\* the fixed text after the placeholder; the input lies between the two
\* "---" delimiter lines.
C5_PromptEmbedsInputVerbatim ==
    \A k \in 1..Len(inflight) :
        LET p == inflight[k].prompt
            h == Len(PromptHead)
            n == Len(user_input)
        IN  /\ Len(p) = h + n + Len(PromptTail)
            /\ SubSeq(p, 1, h) = PromptHead
            /\ SubSeq(p, h + 1, h + n) = user_input
            /\ SubSeq(p, h + n + 1, Len(p)) = PromptTail
            /\ p[h - 1] = "---" /\ p[h] = "\n"
            /\ p[h + n + 1] = "\n" /\ p[h + n + 2] = "---"

C5_Witness ==
    /\ pc = "calling"
    /\ user_input = <<" ", "a">>
    /\ Len(inflight) = 1

\* C6 (as claimed): every handler execution with non-blank input makes
\* exactly one outbound call, so n of them make n calls.
C6_ExactlyOneCallPerTrigger ==
    /\ ValidTrigger => runCalls = 1
    /\ calls = triggers

\* C6 (amended): every handler execution with non-blank input makes at most
\* one outbound call: exactly one when the model object is constructed, none
\* when constructing it raises.  No call is repeated and none is skipped, so
\* the calls made are the triggers less those whose construction raised.
C6_OneCallUnlessConstructionFails ==
    /\ ValidTrigger => runCalls = (IF lastOutcome.stage = "construct" THEN 0 ELSE 1)
    /\ runCalls <= 1
    /\ calls + aborted = triggers

C6_Witness ==
    /\ triggers = 2
    /\ calls = 2
    /\ everFailed
    /\ lastOutcome.kind = "fail"
    /\ pc = "ready"

C8_SuccessResultNonEmpty ==
    (lastOutcome.kind = "ok" /\ display.kind = "result") => display.text # <<>>

\* C9: once a service call has failed the session is neither halted nor
\* crashed: the button can be pressed again, and a later press with valid
\* input makes its call and shows the result of that call.
C9_RunsOnAfterFailure ==
    everFailed =>
        /\ pc \in {"ready", "calling"}
        /\ (pc = "ready" /\ triggers < MaxTriggers) => ENABLED ClickButton
        /\ (pc = "calling") => ENABLED CallReturns
        /\ (pc = "ready" /\ ValidTrigger) =>
              /\ display.kind = "result"
              /\ display.trigger = triggers
              /\ lastOutcome.stage # "construct" => runCalls = 1
              /\ IF lastOutcome.kind = "ok"
                 THEN IsTrimOf(display.text, lastOutcome.text)
                 ELSE IsErrorFor(display.text, lastOutcome.text)

C9_Witness ==
    /\ everFailed
    /\ pc = "ready"
    /\ lastOutcome = Ok(<<"a", " ", "a">>)
    /\ display = Element("result", <<"a", " ", "a">>, 2)

====
